---- MODULE Spec2Model ----
(***************************************************************************)
(* A model of the SAP monitor payload: the monitor loop of sapmon.py       *)
(* driving provider instances (provider/base.py) and their checks          *)
(* (provider/saphana.py, provider/sqlserver.py).                           *)
(*                                                                         *)
(* Python values are modelled as follows.                                  *)
(*   None              NULL                                                *)
(*   datetime          a natural number (a tick of the collector clock,    *)
(*                     or of the server clock for server columns)          *)
(*   dict              a function whose DOMAIN is the set of keys          *)
(*   list              a sequence                                          *)
(*   str (SQL text)    a sequence of tokens, see Tok                       *)
(***************************************************************************)
EXTENDS Integers, Sequences, FiniteSets, TLC

VARIABLES
  now,          \* datetime.utcnow() on the collector
  pc,           \* position of the payload process
  deployment,   \* provider instances found in the secret store, in order
  content,      \* content catalogue per provider type (content/<type>.json)
  files,        \* state/<fullName>.state per instance: NoFile or JSON text
  classState,   \* the dict bound to the class attribute ProviderInstance.state
  objs,         \* the ProviderInstance objects of the running process
  hi,           \* monitor: index of the instance being processed
  ci,           \* monitor: index of the check being processed
  ai,           \* ProviderCheck.run: index of the action being executed
  sink,         \* AzureLogAnalytics.ingest calls made by the running process
  decision,     \* history: what monitor decided for each check in this process
  attempts,     \* history: number of invocations of each action in this process
  failed,       \* history: actions that failed in this process
  runStart,     \* history: utcnow() when the current run() was entered
  runOk,        \* history: no action of the current run() has failed so far
  preparedSql,  \* history: the statement last handed to cursor.execute
  startTime,    \* history: utcnow() when the running process started
  loaded,       \* history: the instances as constructed when it started
  call,         \* a single call of a method: its arguments and what it gave
  sinkFaulty    \* environment: requests to Log Analytics may fail in this run

vars == << now, pc, deployment, content, files, classState, objs, hi, ci, ai,
           sink, decision, attempts, failed, runStart, runOk, preparedSql,
           startTime, loaded, call, sinkFaulty >>

----------------------------------------------------------------------------
(* Bounds *)

MaxTime == 2

----------------------------------------------------------------------------
(* Python values *)

NULL == -1

EmptyDict == [k \in {} |-> NULL]

Put(d, k, v) == [x \in (DOMAIN d) \cup {k} |-> IF x = k THEN v ELSE d[x]]

Get(d, k, default) == IF k \in DOMAIN d THEN d[k] ELSE default

Last(s) == s[Len(s)]

----------------------------------------------------------------------------
(* Constants of the payload *)

COL_LOCAL_UTC == "_LOCAL_UTC"
COL_SERVER_UTC == "_SERVER_UTC"
COL_TIMESERIES_UTC == "_TIMESERIES_UTC"
TIME_FORMAT_JSON == "%Y-%m-%dT%H:%M:%S.%fZ"
PAYLOAD_VERSION == "0.14.0"

(* SQL text is a sequence of tokens; a token is a literal piece of text s,   *)
(* with the number n formatted into it where s has a % conversion.          *)
Tok(s, n) == [s |-> s, n |-> n]

TokFrom == Tok(" FROM", 0)
TokPlaceholder == Tok("{lastRunServerUtc}", 0)
TokSqlTimestamp == Tok(", CURRENT_UTCTIMESTAMP AS _SERVER_UTC FROM DUMMY,", 0)
TokAddSeconds(secs) == Tok("ADD_SECONDS(NOW(), i.VALUE*(-1) - %d)", secs)
TokQuotedTime(t) == Tok("'%s'", t)

----------------------------------------------------------------------------
(* Inputs: the content catalogue and the provider instances                 *)

SelHostConfig == Tok("SELECT HOST, HOST_ACTIVE, INDEXSERVER_ACTUAL_ROLE", 0)
SelLoadHistory == Tok("SELECT HOST, VALUE, UTC_TIMESTAMP AS _TIMESERIES_UTC", 0)

SqlHostConfig ==
  << SelHostConfig, TokFrom, Tok(" M_LANDSCAPE_HOST_CONFIGURATION", 0) >>

SqlLoadHistory ==
  << SelLoadHistory, TokFrom, Tok(" M_FOO WHERE UTC_TIMESTAMP > ", 0),
     TokPlaceholder >>

Action(type, parameters) ==
  [type |-> type, parameters |-> parameters,
   retries |-> 2, delayInSeconds |-> 1, backoffMultiplier |-> 3]

CheckOptions(name, frequencySecs, enabled, actions) ==
  [name |-> name, customLog |-> name, frequencySecs |-> frequencySecs,
   enabled |-> enabled, actions |-> actions]

CheckHostConfig ==
  CheckOptions("HostConfig", 2, TRUE,
     << Action("ExecuteSql", [sql |-> SqlHostConfig]),
        Action("ParseHostConfig", EmptyDict) >>)

CheckSqlProbe ==
  CheckOptions("SqlProbe", 1, TRUE,
     << Action("ProbeSqlConnection", EmptyDict) >>)

CheckLoadHistory ==
  CheckOptions("LoadHistory", 1, TRUE,
     << Action("ExecuteSql", [sql |-> SqlLoadHistory, isTimeSeries |-> TRUE,
                              initialTimespanSecs |-> 60]) >>)

ContentSapHana == << CheckHostConfig, CheckSqlProbe, CheckLoadHistory >>

ContentSapHanaBasic == << CheckHostConfig, CheckSqlProbe >>

ContentMsSqlServer ==
  << CheckOptions("Blocking", 1, TRUE,
        << Action("ExecuteSql", [sql |-> SqlHostConfig]),
           Action("ExecuteSql", [sql |-> SqlHostConfig]) >>),
     CheckOptions("Backups", 1, FALSE,
        << Action("ExecuteSql", [sql |-> SqlHostConfig]) >>) >>

ProviderTypes == {"SapHana", "MsSqlServer"}

Instance(name, type, hostname) ==
  [name |-> name, type |-> type, properties |-> [hostname |-> hostname]]

H1 == Instance("h1", "SapHana", "hdb01")
H2 == Instance("h2", "SapHana", "hdb02")
M1 == Instance("m1", "MsSqlServer", "sql01")

Content(hana, mssql) ==
  [t \in ProviderTypes |-> IF t = "SapHana" THEN hana ELSE mssql]

(* a deployment: the provider instances in the key vault and the content    *)
(* files installed with the payload                                         *)
Deployments ==
  { [instances |-> << H1, H2 >>,
     content |-> Content(ContentSapHanaBasic, ContentMsSqlServer)],
    [instances |-> << M1, H1 >>,
     content |-> Content(ContentSapHana, ContentMsSqlServer)],
    [instances |-> << >>,
     content |-> Content(ContentSapHanaBasic, ContentMsSqlServer)] }

HanaHosts == {"hdb01", "hdb02"}

FullName(inst) == << inst.type, "-", inst.name >>

FullNames == { FullName(H1), FullName(H2), FullName(M1) }

----------------------------------------------------------------------------
(* helper/tools.py: JsonEncoder and JsonDecoder.datetimeHook                *)

JsonNull == << >>

(* a datetime written with its date only: the time of day is lost *)
JsonDateOnly(t) == << TIME_FORMAT_JSON, 0 >>

(* datetime.strftime(o, TIME_FORMAT_JSON): the text of a datetime *)
JsonTime(t) == << TIME_FORMAT_JSON, t >>

DateKeys == {"lastRunLocal", "lastRunServer"}

(* json.dump(..., cls=JsonEncoder) of one dict: None becomes null and a     *)
(* datetime its formatted text; every other value is written as it is.      *)
JsonEncodeDict(d) ==
  [k \in DOMAIN d |->
     IF k \in DateKeys
     THEN (IF d[k] = NULL THEN JsonNull ELSE JsonTime(d[k]))
     ELSE d[k]]

(* datetimeHook on one decoded object: a value that strptime parses with    *)
(* TIME_FORMAT_JSON becomes a datetime, null becomes None.                  *)
DatetimeHook(d) ==
  [k \in DOMAIN d |->
     IF k \in DateKeys
     THEN (IF d[k] = JsonNull THEN NULL
           ELSE IF d[k][1] = TIME_FORMAT_JSON THEN d[k][2] ELSE d[k])
     ELSE d[k]]

----------------------------------------------------------------------------
(* provider/base.py: ProviderCheck *)

NoResult == [cols |-> {}, rows |-> << >>, none |-> TRUE]

Result(cols, rows) == [cols |-> cols, rows |-> rows, none |-> FALSE]

(* ProviderCheck.__init__ *)
NewCheck(opts) ==
  [opts |-> opts,
   state |-> [isEnabled |-> opts.enabled, lastRunLocal |-> NULL],
   lastResult |-> NoResult,
   colTimeGenerated |-> "None"]

(* ProviderCheck.isEnabled *)
IsEnabled(state) == state["isEnabled"]

(* isDue with the comparison >= in place of >: a check whose frequency     *)
(* has elapsed to the second is held back                                   *)
IsDueLate(state, frequencySecs, t) ==
  ~ (state["lastRunLocal"] # NULL /\ state["lastRunLocal"] + frequencySecs >= t)

(* isDue without the frequency: a check is held back only while its last    *)
(* run lies in the future                                                   *)
IsDueAtOnce(state, frequencySecs, t) ==
  ~ (state["lastRunLocal"] # NULL /\ state["lastRunLocal"] > t)

(* ProviderCheck.isDue: not due iff lastRunLocal is set and                 *)
(* lastRunLocal + frequencySecs > utcnow()                                  *)
IsDue(state, frequencySecs, t) ==
  ~ (state["lastRunLocal"] # NULL /\ state["lastRunLocal"] + frequencySecs > t)

----------------------------------------------------------------------------
(* provider/saphana.py: saphanaProviderCheck *)

IndexOf(s, x) ==
  IF \E i \in 1..Len(s) : s[i] = x
  THEN CHOOSE i \in 1..Len(s) : s[i] = x /\ \A j \in 1..(i-1) : s[j] # x
  ELSE 0

(* str.replace(old, new) without the count: every occurrence is replaced *)
ReplaceAll(s, old, new) ==
  [i \in 1..Len(s) |-> IF s[i] = old THEN new ELSE s[i]]

(* str.replace(old, new, 1) on token sequences *)
ReplaceFirst(s, old, new) ==
  LET i == IndexOf(s, old) IN
    IF i = 0 THEN s
    ELSE SubSeq(s, 1, i-1) \o << new >> \o SubSeq(s, i+1, Len(s))

(* saphanaProviderCheck._prepareSql *)
PrepareSql(sql, isTimeSeries, initialTimespanSecs, state) ==
  LET withTimestamp == ReplaceFirst(sql, TokFrom, TokSqlTimestamp)
      lastRunServer == Get(state, "lastRunServer", NULL)
      lastRunServerUtc == IF lastRunServer = NULL
                          THEN TokAddSeconds(initialTimespanSecs)
                          ELSE TokQuotedTime(lastRunServer)
  IN IF isTimeSeries
     THEN ReplaceFirst(sql, TokPlaceholder, lastRunServerUtc)
     ELSE withTimestamp

(* saphanaProviderCheck._calculateResultHash: None for an empty result,     *)
(* else the md5 of the rows' text (kept symbolic)                           *)
CalculateResultHash(rows) ==
  IF Len(rows) = 0 THEN << >> ELSE << "md5", rows >>

(* updateState without the assignment to state["lastRunLocal"] *)
UpdateStateNoLocal(state, lastResult, t) ==
  LET cols == lastResult.cols
      rows == lastResult.rows
      raised == COL_LOCAL_UTC \in cols /\ Len(rows) = 0
      s2 == IF Len(rows) > 0
            THEN IF COL_TIMESERIES_UTC \in cols
                 THEN Put(state, "lastRunServer", Last(rows)[COL_TIMESERIES_UTC])
                 ELSE IF COL_SERVER_UTC \in cols
                      THEN Put(state, "lastRunServer", rows[1][COL_SERVER_UTC])
                      ELSE state
            ELSE state
      s3 == Put(s2, "lastResultHash", CalculateResultHash(rows))
  IN [raised |-> raised, state |-> IF raised THEN state ELSE s3]

(* updateState reading resultRows[0] where the code reads resultRows[-1] *)
UpdateStateFirstRow(state, lastResult, t) ==
  LET cols == lastResult.cols
      rows == lastResult.rows
      raised == COL_LOCAL_UTC \in cols /\ Len(rows) = 0
      lastRunLocal == IF COL_LOCAL_UTC \in cols
                      THEN rows[1][COL_LOCAL_UTC] ELSE t
      s1 == Put(state, "lastRunLocal", lastRunLocal)
      s2 == IF Len(rows) > 0
            THEN IF COL_TIMESERIES_UTC \in cols
                 THEN Put(s1, "lastRunServer", rows[1][COL_TIMESERIES_UTC])
                 ELSE IF COL_SERVER_UTC \in cols
                      THEN Put(s1, "lastRunServer", rows[1][COL_SERVER_UTC])
                      ELSE s1
            ELSE s1
      s3 == Put(s2, "lastResultHash", CalculateResultHash(rows))
  IN [raised |-> raised, state |-> IF raised THEN state ELSE s3]

(* saphanaProviderCheck.updateState at collector time t.                    *)
(* raised: resultRows[0] on an empty result is an IndexError.               *)
UpdateState(state, lastResult, t) ==
  LET cols == lastResult.cols
      rows == lastResult.rows
      raised == COL_LOCAL_UTC \in cols /\ Len(rows) = 0
      lastRunLocal == IF COL_LOCAL_UTC \in cols
                      THEN rows[1][COL_LOCAL_UTC] ELSE t
      s1 == Put(state, "lastRunLocal", lastRunLocal)
      s2 == IF Len(rows) > 0
            THEN IF COL_TIMESERIES_UTC \in cols
                 THEN Put(s1, "lastRunServer", Last(rows)[COL_TIMESERIES_UTC])
                 ELSE IF COL_SERVER_UTC \in cols
                      THEN Put(s1, "lastRunServer", rows[1][COL_SERVER_UTC])
                      ELSE s1
            ELSE s1
      s3 == Put(s2, "lastResultHash", CalculateResultHash(rows))
  IN [raised |-> raised, state |-> IF raised THEN state ELSE s3]

(* saphanaProviderCheck._getHanaConnection: the hosts to try *)
HostsToTry(instState, hostname) ==
  IF "hostConfig" \notin DOMAIN instState
  THEN << hostname >>
  ELSE [i \in 1..Len(instState["hostConfig"]) |-> instState["hostConfig"][i].host]

(* the loop of _getHanaConnection without its break: every host is         *)
(* contacted and the last one that connects is kept                         *)
TryAllHosts(hostsToTry, conn, i, contacted) ==
  LET up == { j \in i..Len(hostsToTry) : conn[hostsToTry[j]] = "connected" }
  IN [index |-> IF up = {} THEN 0 ELSE CHOOSE j \in up : \A k \in up : k <= j,
      contacted |-> contacted \o SubSeq(hostsToTry, i, Len(hostsToTry))]

(* saphanaProviderCheck._getHanaConnection: the loop over hostsToTry from   *)
(* host i on; contacted are the hosts a connection was attempted to         *)
RECURSIVE TryHosts(_, _, _, _)
TryHosts(hostsToTry, conn, i, contacted) ==
  IF i > Len(hostsToTry)
  THEN [index |-> 0, contacted |-> contacted]
  ELSE IF conn[hostsToTry[i]] = "connected"
       THEN [index |-> i, contacted |-> Append(contacted, hostsToTry[i])]
       ELSE TryHosts(hostsToTry, conn, i + 1, Append(contacted, hostsToTry[i]))

(* saphanaProviderCheck._getHanaConnection: index in hostsToTry of the host *)
(* whose connection is returned, 0 for (None, None, None).                   *)
(* conn[h] is what dbapi.connect to h does.                                  *)
GetHanaConnection(hostsToTry, conn) ==
  TryHosts(hostsToTry, conn, 1, << >>).index

ConnOutcomes == {"connected", "notconnected", "error"}

----------------------------------------------------------------------------
(* The HANA server, as the driver shows it *)

Range(s) == { s[i] : i \in 1..Len(s) }

HostLists == { << "hdb02", "hdb01" >>, << >> }

TimeSeriesLists == { << >>, << 1, 2 >> }

(* cursor.description after executing the prepared statement *)
DbColumns(prepared) ==
  (IF prepared[1] = SelHostConfig
   THEN {"HOST", "HOST_ACTIVE", "INDEXSERVER_ACTUAL_ROLE"}
   ELSE {"HOST", "VALUE", COL_TIMESERIES_UTC})
  \cup (IF TokSqlTimestamp \in Range(prepared) THEN {COL_SERVER_UTC} ELSE {})

(* the row sets cursor.fetchall() may return; the server clock reads t *)
DbRowSets(prepared, t) ==
  LET cols == DbColumns(prepared)
      hostRow(h, i) ==
        [c \in cols |->
           CASE c = "HOST" -> h
             [] c = "HOST_ACTIVE" -> "YES"
             [] c = "INDEXSERVER_ACTUAL_ROLE" -> (IF i = 1 THEN "MASTER" ELSE "SLAVE")
             [] OTHER -> t]
      valueRow(ts) ==
        [c \in cols |->
           CASE c = "HOST" -> "hdb01"
             [] c = "VALUE" -> 0
             [] c = COL_TIMESERIES_UTC -> ts
             [] OTHER -> t]
  IN IF prepared[1] = SelHostConfig
     THEN { [i \in 1..Len(hl) |-> hostRow(hl[i], i)] : hl \in HostLists }
     ELSE { [i \in 1..Len(tl) |-> valueRow(tl[i])] : tl \in TimeSeriesLists }

----------------------------------------------------------------------------
(* The actions of a check. Each yields                                       *)
(*   status     "ok" (returned, not False), "false" (returned False) or      *)
(*              "raise" (an exception left the method)                       *)
(*   check      the check object afterwards                                  *)
(*   instState  the dict behind providerInstance.state afterwards            *)
(*   sql        the statement handed to cursor.execute, << >> if none        *)

Outcome(status, check, instState, sql) ==
  [status |-> status, check |-> check, instState |-> instState, sql |-> sql]

(* _actionExecuteSql calling updateState before it looks for a connection *)
HanaExecuteSqlStampFirst(check, instState, hostname, params, conn, exec, rows, t) ==
  Outcome("raise", [check EXCEPT !.state = Put(@, "lastRunLocal", t)],
          instState, << >>)

(* saphanaProviderCheck._actionExecuteSql at collector time t.               *)
(* conn[h]: what connecting to host h does; exec: whether cursor.execute     *)
(* raises; rows: what cursor.fetchall returns.                               *)
HanaExecuteSql(check, instState, hostname, params, conn, exec, rows, t) ==
  LET isTimeSeries == Get(params, "isTimeSeries", FALSE)
      initialTimespanSecs == Get(params, "initialTimespanSecs", 60)
      c1 == [check EXCEPT !.colTimeGenerated =
               IF isTimeSeries THEN COL_TIMESERIES_UTC ELSE COL_SERVER_UTC]
      k == GetHanaConnection(HostsToTry(instState, hostname), conn)
      prepared == PrepareSql(params["sql"], isTimeSeries, initialTimespanSecs,
                             check.state)
      c2 == [c1 EXCEPT !.lastResult = Result(DbColumns(prepared), rows)]
      up == UpdateState(c2.state, c2.lastResult, t)
  IN IF k = 0 THEN Outcome("raise", c1, instState, << >>)
     ELSE IF prepared = << >> THEN Outcome("raise", c1, instState, << >>)
     ELSE IF exec = "raise" THEN Outcome("raise", c1, instState, prepared)
     ELSE IF up.raised THEN Outcome("raise", c2, instState, prepared)
     ELSE Outcome("ok", [c2 EXCEPT !.state = up.state], instState, prepared)

(* sapsqlProviderCheck._actionExecuteSql: _getsqlConnection passes           *)
(* hostname= to _establishsqlConnectionToHost, which has no such parameter   *)
(* and returns nothing, so every host fails and the action returns False.    *)
MsSqlExecuteSql(check, instState, params) ==
  LET isTimeSeries == Get(params, "isTimeSeries", FALSE)
      c1 == [check EXCEPT !.colTimeGenerated =
               IF isTimeSeries THEN COL_TIMESERIES_UTC ELSE COL_SERVER_UTC]
  IN Outcome("false", c1, instState, << >>)

(* saphanaProviderCheck._actionParseHostConfig *)
ParseHostConfig(check, instState) ==
  LET rows == check.lastResult.rows
      hosts == [i \in 1..Len(rows) |->
                  [host |-> rows[i]["HOST"],
                   active |-> (rows[i]["HOST_ACTIVE"] = "YES"),
                   role |-> rows[i]["INDEXSERVER_ACTUAL_ROLE"]]]
  IN IF check.lastResult.none
     THEN Outcome("raise", check, instState, << >>)
     ELSE Outcome("ok", check, Put(instState, "hostConfig", hosts), << >>)

HostOrder == << "hdb01", "hdb02" >>

(* sorted(hostsToProbe) *)
Sorted(hosts) == SelectSeq(HostOrder, LAMBDA h : h \in Range(hosts))

ProbePorts == {"sql", "nameserver"}

ProbeOutcomes ==
  {"connected", "notconnected", "89008", "socket closed", "timeout expired"}

(* what the landscape answers to the probes of one run *)
ProbeScenarios ==
  { [hp \in HanaHosts \X ProbePorts |-> "connected"],
    [hp \in HanaHosts \X ProbePorts |-> "timeout expired"],
    [hp \in HanaHosts \X ProbePorts |->
       IF hp[2] = "sql" THEN "timeout expired" ELSE "89008"],
    [hp \in HanaHosts \X ProbePorts |->
       IF hp[1] = "hdb01" THEN "connected" ELSE "timeout expired"] }

(* the probe of one host looking at the SQL port only *)
ProbeSuccessSqlOnly(probe, host) ==
  probe[<< host, "sql" >>] \in {"connected", "89008", "socket closed"}

(* the probe of one host taking a timeout for an answer *)
ProbeSuccessOnTimeout(probe, host) ==
  \E port \in ProbePorts :
     probe[<< host, port >>] \in {"connected", "89008", "socket closed", "timeout expired"}

(* one host of _actionProbeSqlConnection: up iff the SQL port or, failing    *)
(* that, the nameserver port connects or answers 89008 / socket closed       *)
ProbeSuccess(probe, host) ==
  \E port \in ProbePorts :
     probe[<< host, port >>] \in {"connected", "89008", "socket closed"}

(* saphanaProviderCheck._actionProbeSqlConnection at collector time t *)
ProbeSqlConnection(check, instState, probe, t) ==
  LET c1 == [check EXCEPT !.colTimeGenerated = COL_LOCAL_UTC]
      hosts == Sorted([i \in 1..Len(instState["hostConfig"]) |->
                         instState["hostConfig"][i].host])
      rows == [i \in 1..Len(hosts) |->
                 [_LOCAL_UTC |-> t, HOST |-> hosts[i],
                  SUCCESS |-> ProbeSuccess(probe, hosts[i]),
                  LATENCY_MS |-> IF ProbeSuccess(probe, hosts[i]) THEN 0 ELSE NULL]]
      c2 == [c1 EXCEPT !.lastResult =
               Result({COL_LOCAL_UTC, "HOST", "SUCCESS", "LATENCY_MS"}, rows)]
      up == UpdateState(c2.state, c2.lastResult, t)
  IN IF "hostConfig" \notin DOMAIN instState
     THEN Outcome("raise", c1, instState, << >>)
     ELSE IF up.raised THEN Outcome("raise", c2, instState, << >>)
     ELSE Outcome("ok", [c2 EXCEPT !.state = up.state], instState, << >>)

(* the columns that hold datetimes *)
TimeColumns == {COL_LOCAL_UTC, COL_SERVER_UTC, COL_TIMESERIES_UTC}

(* c.startswith("_"), over the column names of the model *)
StartsWithUnderscore(c) == c \in TimeColumns \cup {"_ROWNUM"}

(* initContent: jsonData.get("contentVersion") of the content file *)
ContentVersion == "content-1"

(* the keys every logItem starts with *)
LogItemSeed(inst) ==
  [CONTENT_VERSION |-> ContentVersion,
   SAPMON_VERSION |-> PAYLOAD_VERSION,
   PROVIDER_INSTANCE |-> inst.name]

(* json.dumps(..., cls=JsonEncoder) of the value of column c *)
JsonEncodeValue(c, v) == IF c \in TimeColumns THEN JsonTime(v) ELSE v

(* a logItem that leaves out every internal column, the one mapped to        *)
(* TimeGenerated too                                                         *)
LogItemWithoutTimeGenerated(inst, check, r) ==
  LET seed == LogItemSeed(inst)
      cols == { c \in check.lastResult.cols :
                  ~ (StartsWithUnderscore(c) \/ c = "DUMMY") }
  IN [c \in cols \cup DOMAIN seed |->
        IF c \in cols THEN JsonEncodeValue(c, r[c]) ELSE seed[c]]

(* generateJsonString: the logItem of one row r. A column of the result      *)
(* that has the name of a seeded key overwrites it.                          *)
LogItem(inst, check, r) ==
  LET seed == LogItemSeed(inst)
      cols == { c \in check.lastResult.cols :
                  ~ (c # check.colTimeGenerated
                     /\ (StartsWithUnderscore(c) \/ c = "DUMMY")) }
  IN [c \in cols \cup DOMAIN seed |->
        IF c \in cols THEN JsonEncodeValue(c, r[c]) ELSE seed[c]]

(* generateJsonString that emits the first row only *)
GenerateJsonStringFirstRow(inst, check) ==
  LET rows == check.lastResult.rows
  IN IF check.lastResult.none \/ Len(rows) = 0 THEN << >>
     ELSE << LogItem(inst, check, rows[1]) >>

(* ProviderCheck.generateJsonString: the JSON array, one logItem per row of  *)
(* lastResult in the order of the rows; empty when there is no result        *)
GenerateJsonString(inst, check) ==
  LET rows == check.lastResult.rows
  IN IF check.lastResult.none THEN << >>
     ELSE [i \in 1..Len(rows) |-> LogItem(inst, check, rows[i])]

----------------------------------------------------------------------------
(* provider/base.py: ProviderInstance *)

NoFile ==
  [exists |-> FALSE, parses |-> FALSE,
   text |-> [global |-> EmptyDict, checks |-> EmptyDict]]

File(text) == [exists |-> TRUE, parses |-> TRUE, text |-> text]

(* a state file that json.loads rejects *)
DamagedFile ==
  [exists |-> TRUE, parses |-> FALSE,
   text |-> [global |-> EmptyDict, checks |-> EmptyDict]]

NoSave == [set |-> FALSE, v |-> FALSE]

(* the loop of readState over self.checks, from check c on; save is          *)
(* saveIsEnabled, which the loop carries from one check to the next          *)
RECURSIVE ReadCheckStates(_, _, _, _)
ReadCheckStates(checks, checkStates, c, save) ==
  IF c > Len(checks) THEN checks
  ELSE LET old == checks[c].state
           save1 == IF "isEnabled" \in DOMAIN old
                    THEN [set |-> TRUE, v |-> old["isEnabled"]] ELSE save
           read == DatetimeHook(Get(checkStates, checks[c].opts.name, EmptyDict))
           new == IF save1.set THEN Put(read, "isEnabled", save1.v) ELSE read
       IN ReadCheckStates([checks EXCEPT ![c].state = new], checkStates, c + 1, save1)

(* ProviderInstance.__init__ reading a state file that does not parse as if  *)
(* it held the empty JSON object                                             *)
NewInstanceDamagedAsEmpty(inst, catalogue, file) ==
  LET checks == [c \in 1..Len(catalogue) |-> NewCheck(catalogue[c])]
  IN IF ~ file.exists
     THEN [shared |-> TRUE, state |-> EmptyDict, checks |-> checks]
     ELSE [shared |-> FALSE,
           state |-> file.text.global,
           checks |-> ReadCheckStates(checks, file.text.checks, 1, NoSave)]

(* ProviderInstance.__init__ with the checks of the catalogue taken last     *)
(* to first                                                                  *)
NewInstanceReversed(inst, catalogue, file) ==
  LET n == Len(catalogue)
      checks == [c \in 1..n |-> NewCheck(catalogue[n + 1 - c])]
  IN IF ~ file.exists \/ ~ file.parses
     THEN [shared |-> TRUE, state |-> EmptyDict, checks |-> checks]
     ELSE [shared |-> FALSE,
           state |-> file.text.global,
           checks |-> ReadCheckStates(checks, file.text.checks, 1, NoSave)]

(* ProviderInstance.__init__: initContent, then readState.                   *)
(* shared: self.state is still the dict of the class attribute, because      *)
(* readState returned before assigning self.state.                           *)
NewInstance(inst, catalogue, file) ==
  LET checks == [c \in 1..Len(catalogue) |-> NewCheck(catalogue[c])]
  IN IF ~ file.exists \/ ~ file.parses
     THEN [shared |-> TRUE, state |-> EmptyDict, checks |-> checks]
     ELSE [shared |-> FALSE,
           state |-> file.text.global,
           checks |-> ReadCheckStates(checks, file.text.checks, 1, NoSave)]

(* ProviderInstance.writeState: the JSON text written to the state file *)
WriteStateText(instState, checks) ==
  [global |-> instState,
   checks |-> [n \in { checks[c].opts.name : c \in 1..Len(checks) } |->
                 JsonEncodeDict(
                   checks[CHOOSE c \in 1..Len(checks) :
                            /\ checks[c].opts.name = n
                            /\ \A d \in (c+1)..Len(checks) : checks[d].opts.name # n
                         ].state)]]

----------------------------------------------------------------------------
(* The payload process: sapmon.py monitor *)

InstIdx == 1..Len(deployment)

(* the dict an instance's checks reach through providerInstance.state *)
InstState(i) == IF objs[i].shared THEN classState ELSE objs[i].state

Ended == {"idle", "done", "crashed", "exit30"}

ERROR_HANA_CONNECTION == 30

ERROR_LOADING_CONFIG == 60

(* the exit code of a process that has ended: monitor returns, calls         *)
(* sys.exit(ERROR_HANA_CONNECTION), or dies of an exception nothing catches  *)
ExitCode ==
  CASE pc = "done" -> 0
    [] pc = "exit30" -> ERROR_HANA_CONNECTION
    [] pc = "crashed" -> 1
    [] OTHER -> NULL

NoCall == [method |-> "none"]

NoSql == [stmt |-> << >>, params |-> EmptyDict, lastRunServer |-> NULL]

TypeOK ==
  /\ now \in 0..MaxTime
  /\ pc \in Ended \cup {"connect", "check", "action"}
  /\ deployment \in { d.instances : d \in Deployments }
  /\ \A t \in ProviderTypes :
       content[t] \in {ContentSapHana, ContentSapHanaBasic, ContentMsSqlServer}
  /\ hi \in 1..Len(deployment) \/ (hi = 1 /\ Len(deployment) = 0)
  /\ startTime \in 0..now

Init ==
  /\ now = 0
  /\ pc = "idle"
  /\ \E d \in Deployments : deployment = d.instances /\ content = d.content
  /\ files = [f \in FullNames |-> NoFile]
  /\ classState = EmptyDict
  /\ objs = << >>
  /\ hi = 1 /\ ci = 1 /\ ai = 1
  /\ sink = << >>
  /\ decision = << >>
  /\ attempts = << >>
  /\ failed = {}
  /\ runStart = 0
  /\ runOk = TRUE
  /\ preparedSql = NoSql
  /\ startTime = 0
  /\ loaded = << >>
  /\ call = NoCall
  /\ sinkFaulty = FALSE

(* the collector clock advances *)
Tick ==
  /\ now < MaxTime
  /\ pc \in Ended \cup {"action"}
  /\ now' = now + 1
  /\ UNCHANGED << startTime, loaded, call, sinkFaulty,
                  pc, deployment, content, files, classState, objs, hi, ci, ai,
                  sink, decision, attempts, failed, runStart, runOk, preparedSql >>

(* a payload process starts: the provider instances are constructed from     *)
(* the secrets, each loading its content and reading its state file          *)
Start ==
  /\ pc \in Ended
  /\ pc' = IF Len(deployment) = 0 THEN "done" ELSE "connect"
  /\ classState' = EmptyDict
  /\ objs' = [i \in InstIdx |->
                NewInstance(deployment[i], content[deployment[i].type],
                            files[FullName(deployment[i])])]
  /\ hi' = 1 /\ ci' = 1 /\ ai' = 1
  /\ sink' = << >>
  /\ decision' = [i \in InstIdx |->
                    [c \in 1..Len(content[deployment[i].type]) |-> "none"]]
  /\ attempts' = [i \in InstIdx |->
                    [c \in 1..Len(content[deployment[i].type]) |->
                       [a \in 1..Len(content[deployment[i].type][c].actions) |-> 0]]]
  /\ failed' = {}
  /\ runStart' = 0
  /\ runOk' = TRUE
  /\ preparedSql' = NoSql
  /\ startTime' = now
  /\ loaded' = objs'
  /\ UNCHANGED << now, deployment, content, files, call, sinkFaulty >>

(* a monitor that writes the state of the instance before it exits on a     *)
(* failed connect                                                            *)
ConnectWriteThenExit ==
  /\ pc = "connect"
  /\ \E ok \in BOOLEAN :
       /\ pc' = IF ok THEN "check" ELSE "exit30"
       /\ files' = IF ok THEN files
                   ELSE [files EXCEPT ![<< deployment[hi].type, "-", deployment[hi].name >>] =
                           [exists |-> TRUE, parses |-> TRUE,
                            text |-> [global |-> objs[hi].state, checks |-> << >>]]]
  /\ ci' = 1
  /\ UNCHANGED << startTime, loaded, call, sinkFaulty,
                  now, deployment, content, classState, objs, hi, ai,
                  sink, decision, attempts, failed, runStart, runOk, preparedSql >>

(* monitor: h.connect() *)
Connect ==
  /\ pc = "connect"
  /\ \E ok \in BOOLEAN :
       pc' = IF ok THEN "check" ELSE "exit30"
  /\ ci' = 1
  /\ UNCHANGED << startTime, loaded, call, sinkFaulty,
                  now, deployment, content, files, classState, objs, hi, ai,
                  sink, decision, attempts, failed, runStart, runOk, preparedSql >>

CurCheck == objs[hi].checks[ci]

AtCheck == pc = "check" /\ ci <= Len(objs[hi].checks)

(* monitor: the check is disabled, skip it *)
SkipDisabled ==
  /\ AtCheck
  /\ ~ IsEnabled(CurCheck.state)
  /\ decision' = [decision EXCEPT ![hi][ci] = "disabled"]
  /\ ci' = ci + 1
  /\ UNCHANGED << startTime, loaded, call, sinkFaulty,
                  now, pc, deployment, content, files, classState, objs, hi, ai,
                  sink, attempts, failed, runStart, runOk, preparedSql >>

(* monitor: the check is not due yet, skip it *)
SkipNotDue ==
  /\ AtCheck
  /\ IsEnabled(CurCheck.state)
  /\ "lastRunLocal" \in DOMAIN CurCheck.state
  /\ ~ IsDue(CurCheck.state, CurCheck.opts.frequencySecs, now)
  /\ decision' = [decision EXCEPT ![hi][ci] = "notdue"]
  /\ ci' = ci + 1
  /\ UNCHANGED << startTime, loaded, call, sinkFaulty,
                  now, pc, deployment, content, files, classState, objs, hi, ai,
                  sink, attempts, failed, runStart, runOk, preparedSql >>

(* monitor: the check is enabled and due, c.run() is entered; reading a      *)
(* state without the key lastRunLocal is a KeyError, which ends the process  *)
BeginRun ==
  /\ AtCheck
  /\ IsEnabled(CurCheck.state)
  /\ IF "lastRunLocal" \notin DOMAIN CurCheck.state
     THEN /\ pc' = "crashed"
          /\ UNCHANGED << startTime, loaded, decision, ai, runStart, runOk >>
     ELSE /\ IsDue(CurCheck.state, CurCheck.opts.frequencySecs, now)
          /\ pc' = "action"
          /\ decision' = [decision EXCEPT ![hi][ci] = "run"]
          /\ ai' = 1
          /\ runStart' = now
          /\ runOk' = TRUE
  /\ UNCHANGED << startTime, loaded, call, sinkFaulty,
                  now, deployment, content, files, classState, objs, hi, ci,
                  sink, attempts, failed, preparedSql >>

CurAction == CurCheck.opts.actions[ai]

AtAction(type) ==
  /\ pc = "action"
  /\ ai <= Len(CurCheck.opts.actions)
  /\ CurAction.type = type

(* ProviderCheck.run: one pass of the loop, the action having done out.     *)
(* An exception leaves run and monitor, neither of which catches it; a      *)
(* returned False is logged and the loop goes on.                           *)
ApplyOutcome(out) ==
  /\ objs' = [objs EXCEPT ![hi].checks[ci] = out.check,
                          ![hi].state = IF objs[hi].shared THEN @ ELSE out.instState]
  /\ classState' = IF objs[hi].shared THEN out.instState ELSE classState
  /\ attempts' = [attempts EXCEPT ![hi][ci][ai] = @ + 1]
  /\ failed' = IF out.status = "ok" THEN failed ELSE failed \cup { << hi, ci, ai >> }
  /\ runOk' = (runOk /\ out.status = "ok")
  /\ preparedSql' = IF out.sql = << >> THEN preparedSql
                    ELSE [stmt |-> out.sql, params |-> CurAction.parameters,
                          lastRunServer |-> Get(CurCheck.state, "lastRunServer", NULL)]
  /\ pc' = IF out.status = "raise" THEN "crashed" ELSE "action"
  /\ ai' = IF out.status = "raise" THEN ai ELSE ai + 1
  /\ UNCHANGED << startTime, loaded, call, sinkFaulty,
                  now, deployment, content, files, hi, ci, sink, decision, runStart >>

(* run: an executeSql action *)
RunExecuteSql ==
  /\ AtAction("ExecuteSql")
  /\ IF deployment[hi].type = "SapHana"
     THEN \E conn \in [HanaHosts -> ConnOutcomes], exec \in {"ok", "raise"} :
            LET prepared == PrepareSql(CurAction.parameters["sql"],
                                       Get(CurAction.parameters, "isTimeSeries", FALSE),
                                       Get(CurAction.parameters, "initialTimespanSecs", 60),
                                       CurCheck.state)
            IN \E rows \in DbRowSets(prepared, now) :
                 ApplyOutcome(HanaExecuteSql(CurCheck, InstState(hi),
                                             deployment[hi].properties.hostname,
                                             CurAction.parameters, conn, exec, rows, now))
     ELSE ApplyOutcome(MsSqlExecuteSql(CurCheck, InstState(hi), CurAction.parameters))

(* run: a parseHostConfig action *)
RunParseHostConfig ==
  /\ AtAction("ParseHostConfig")
  /\ ApplyOutcome(ParseHostConfig(CurCheck, InstState(hi)))

(* run: a probeSqlConnection action *)
RunProbeSqlConnection ==
  /\ AtAction("ProbeSqlConnection")
  /\ \E probe \in ProbeScenarios :
       ApplyOutcome(ProbeSqlConnection(CurCheck, InstState(hi), probe, now))

(* AzureLogAnalytics.ingest: what REST.sendRequest gives back, the content   *)
(* of a 200 answer or None after an error status or an exception            *)
LaResponses == IF sinkFaulty THEN {"ok", "None"} ELSE {"ok"}

(* a monitor that goes on to the next check without handing the records to  *)
(* the sink client                                                           *)
IngestDeferred ==
  /\ pc = "action"
  /\ ai > Len(CurCheck.opts.actions)
  /\ pc' = "check"
  /\ ci' = ci + 1
  /\ UNCHANGED << startTime, loaded, call, sinkFaulty,
                  now, deployment, content, files, classState, objs, hi, ai,
                  sink, decision, attempts, failed, runStart, runOk, preparedSql >>

(* an ingest whose failure ends the process *)
IngestOrAbort ==
  /\ pc = "action"
  /\ ai > Len(CurCheck.opts.actions)
  /\ \E response \in LaResponses :
       /\ sink' = Append(sink, [inst |-> hi, check |-> ci,
                                customLog |-> CurCheck.opts.customLog,
                                colTimeGenerated |-> CurCheck.colTimeGenerated,
                                json |-> GenerateJsonString(deployment[hi], CurCheck),
                                response |-> response])
       /\ IF response = "None"
          THEN pc' = "crashed" /\ ci' = ci
          ELSE pc' = "check" /\ ci' = ci + 1
  /\ UNCHANGED << startTime, loaded, call, sinkFaulty,
                  now, deployment, content, files, classState, objs, hi, ai,
                  decision, attempts, failed, runStart, runOk, preparedSql >>

(* run returns generateJsonString(); monitor hands it to ctx.azLa.ingest     *)
Ingest ==
  /\ pc = "action"
  /\ ai > Len(CurCheck.opts.actions)
  /\ \E response \in LaResponses :
       sink' = Append(sink, [inst |-> hi, check |-> ci,
                             customLog |-> CurCheck.opts.customLog,
                             colTimeGenerated |-> CurCheck.colTimeGenerated,
                             json |-> GenerateJsonString(deployment[hi], CurCheck),
                             response |-> response])
  /\ pc' = "check"
  /\ ci' = ci + 1
  /\ UNCHANGED << startTime, loaded, call, sinkFaulty,
                  now, deployment, content, files, classState, objs, hi, ai,
                  decision, attempts, failed, runStart, runOk, preparedSql >>

(* monitor: all checks of the instance are through; the state is written,    *)
(* the instance disconnected and the next instance taken up                  *)
WriteState ==
  /\ pc = "check"
  /\ ci > Len(objs[hi].checks)
  /\ files' = [files EXCEPT ![FullName(deployment[hi])] =
                 File(WriteStateText(InstState(hi), objs[hi].checks))]
  /\ IF hi < Len(deployment)
     THEN hi' = hi + 1 /\ pc' = "connect"
     ELSE hi' = hi /\ pc' = "done"
  /\ ci' = 1
  /\ UNCHANGED << startTime, loaded, call, sinkFaulty,
                  now, deployment, content, classState, objs, ai,
                  sink, decision, attempts, failed, runStart, runOk, preparedSql >>

Next ==
  \/ Tick
  \/ Start
  \/ Connect
  \/ SkipDisabled
  \/ SkipNotDue
  \/ BeginRun
  \/ RunExecuteSql
  \/ RunParseHostConfig
  \/ RunProbeSqlConnection
  \/ Ingest
  \/ WriteState

Spec == Init /\ [][Next]_vars

----------------------------------------------------------------------------
(* Reloads: between two payload processes the content files may be          *)
(* replaced by another version of the catalogue, and the operator may        *)
(* toggle the isEnabled of a check in a state file.                          *)

InitReload ==
  /\ now = 0
  /\ pc = "idle"
  /\ deployment = << M1, H1 >>
  /\ content = Content(ContentSapHanaBasic, ContentMsSqlServer)
  /\ files = [f \in FullNames |-> NoFile]
  /\ classState = EmptyDict
  /\ objs = << >>
  /\ hi = 1 /\ ci = 1 /\ ai = 1
  /\ sink = << >>
  /\ decision = << >>
  /\ attempts = << >>
  /\ failed = {}
  /\ runStart = 0
  /\ runOk = TRUE
  /\ preparedSql = NoSql
  /\ startTime = 0
  /\ loaded = << >>
  /\ call = NoCall
  /\ sinkFaulty = FALSE

(* a deployment whose Log Analytics endpoint is not dependable *)
InitSink ==
  /\ now = 0
  /\ pc = "idle"
  /\ deployment = << M1, H1 >>
  /\ content = Content(ContentSapHanaBasic, ContentMsSqlServer)
  /\ files = [f \in FullNames |-> NoFile]
  /\ classState = EmptyDict
  /\ objs = << >>
  /\ hi = 1 /\ ci = 1 /\ ai = 1
  /\ sink = << >>
  /\ decision = << >>
  /\ attempts = << >>
  /\ failed = {}
  /\ runStart = 0
  /\ runOk = TRUE
  /\ preparedSql = NoSql
  /\ startTime = 0
  /\ loaded = << >>
  /\ call = NoCall
  /\ sinkFaulty = TRUE

SpecSink == InitSink /\ [][Next]_vars

(* content/SapHana.json is replaced: the check LoadHistory is added to the   *)
(* catalogue, or removed from it                                            *)
ContentUpdate ==
  /\ pc \in Ended
  /\ content' = [content EXCEPT !["SapHana"] =
                   IF @ = ContentSapHanaBasic THEN ContentSapHana
                   ELSE ContentSapHanaBasic]
  /\ UNCHANGED << now, pc, deployment, files, classState, objs, hi, ci, ai,
                  sink, decision, attempts, failed, runStart, runOk, preparedSql,
                  startTime, loaded, call, sinkFaulty >>

(* the operator flips isEnabled of one check in a state file that a        *)
(* complete pass has left behind; the next process has not started yet     *)
OperatorToggle ==
  /\ pc = "done"
  /\ pc' = "idle"
  /\ \E f \in FullNames :
       /\ files[f].exists
       /\ \E n \in DOMAIN files[f].text.checks :
            /\ "isEnabled" \in DOMAIN files[f].text.checks[n]
            /\ files' = [files EXCEPT ![f].text.checks[n]["isEnabled"] = ~ @]
  /\ UNCHANGED << now, deployment, content, classState, objs, hi, ci, ai,
                  sink, decision, attempts, failed, runStart, runOk, preparedSql,
                  startTime, loaded, call, sinkFaulty >>

(* the state file a complete pass has left behind is damaged (cut short,    *)
(* overwritten) before the next process starts                              *)
FileDamaged ==
  /\ pc = "done"
  /\ pc' = "idle"
  /\ \E f \in FullNames :
       /\ files[f].exists
       /\ files' = [files EXCEPT ![f] = DamagedFile]
  /\ UNCHANGED << now, deployment, content, classState, objs, hi, ci, ai,
                  sink, decision, attempts, failed, runStart, runOk, preparedSql,
                  startTime, loaded, call, sinkFaulty >>

NextReload ==
  \/ Next
  \/ ContentUpdate
  \/ OperatorToggle
  \/ FileDamaged

SpecReload == InitReload /\ [][NextReload]_vars

----------------------------------------------------------------------------
(* Single calls: a method is called once with arguments drawn from small    *)
(* sets; call records the arguments and what the method gave.                *)

MaxSqlLen == 4

SqlTokens == {SelLoadHistory, TokFrom, TokPlaceholder}

(* the literal queries of a content file, sub-selects included *)
SqlTexts == UNION { [1..n -> SqlTokens] : n \in 1..MaxSqlLen }

(* check states as _prepareSql may find them *)
SqlCheckStates ==
  { [isEnabled |-> TRUE, lastRunLocal |-> NULL] }
  \cup { [isEnabled |-> TRUE, lastRunLocal |-> t, lastRunServer |-> t] : t \in 0..MaxTime }

(* saphanaProviderCheck._prepareSql(sql, isTimeSeries, initialTimespanSecs) *)
CallPrepareSql ==
  /\ call = NoCall
  /\ \E sql \in SqlTexts, isTimeSeries \in BOOLEAN, state \in SqlCheckStates :
       call' = [method |-> "_prepareSql", sql |-> sql, isTimeSeries |-> isTimeSeries,
                initialTimespanSecs |-> 60, state |-> state,
                result |-> PrepareSql(sql, isTimeSeries, 60, state)]
  /\ UNCHANGED << now, pc, deployment, content, files, classState, objs, hi, ci, ai,
                  sink, decision, attempts, failed, runStart, runOk, preparedSql,
                  startTime, loaded, sinkFaulty >>

(* host lists as a stored host config may hold them *)
StoredHostLists ==
  { << >> } \cup { << h >> : h \in HanaHosts }
  \cup { hg \in HanaHosts \X HanaHosts : hg[1] # hg[2] }

HostConfigOf(hosts) ==
  [i \in 1..Len(hosts) |->
     [host |-> hosts[i], active |-> TRUE,
      role |-> IF i = 1 THEN "MASTER" ELSE "SLAVE"]]

(* instance states as the checks may find them *)
InstStates ==
  { EmptyDict } \cup { [hostConfig |-> HostConfigOf(hl)] : hl \in StoredHostLists }

(* saphanaProviderCheck._getHanaConnection(), and _actionExecuteSql on top   *)
(* of it                                                                     *)
CallGetHanaConnection ==
  /\ call = NoCall
  /\ \E instState \in InstStates, hostname \in HanaHosts,
        conn \in [HanaHosts -> ConnOutcomes] :
       call' = [method |-> "_getHanaConnection", instState |-> instState,
                hostname |-> hostname, conn |-> conn,
                result |-> TryHosts(HostsToTry(instState, hostname), conn, 1, << >>),
                executeSql |->
                  HanaExecuteSql(NewCheck(CheckHostConfig), instState, hostname,
                                 CheckHostConfig.actions[1].parameters,
                                 conn, "ok", << >>, 0).status]
  /\ UNCHANGED << now, pc, deployment, content, files, classState, objs, hi, ci, ai,
                  sink, decision, attempts, failed, runStart, runOk, preparedSql,
                  startTime, loaded, sinkFaulty >>

(* saphanaProviderCheck._actionProbeSqlConnection() on a fresh check *)
CallProbeSqlConnection ==
  /\ call = NoCall
  /\ \E instState \in InstStates,
        probe \in [HanaHosts \X ProbePorts -> ProbeOutcomes] :
       call' = [method |-> "_actionProbeSqlConnection", instState |-> instState,
                probe |-> probe, t |-> now,
                result |-> ProbeSqlConnection(NewCheck(CheckSqlProbe), instState,
                                              probe, now)]
  /\ UNCHANGED << now, pc, deployment, content, files, classState, objs, hi, ci, ai,
                  sink, decision, attempts, failed, runStart, runOk, preparedSql,
                  startTime, loaded, sinkFaulty >>

(* result columns as a statement of the catalogue may return them *)
ResultColumns ==
  {"HOST", "DUMMY", "_ROWNUM", "SAPMON_VERSION", COL_SERVER_UTC, COL_LOCAL_UTC}

(* the k-th row the database holds *)
DbRow(cols, k) ==
  [c \in cols |->
     CASE c = "HOST" -> HostOrder[k]
       [] c = "DUMMY" -> "X"
       [] c = "SAPMON_VERSION" -> "db-side"
       [] OTHER -> k]

(* lastResult as _actionExecuteSql may leave it: None, or the columns and    *)
(* zero to two rows in either order                                          *)
LastResults ==
  { NoResult }
  \cup { Result(cols, rows) :
           cols \in SUBSET ResultColumns,
           rows \in { << >>, << 1 >>, << 1, 2 >>, << 2, 1 >> } }

CallResult(res) ==
  IF res.none THEN res
  ELSE Result(res.cols, [i \in 1..Len(res.rows) |-> DbRow(res.cols, res.rows[i])])

(* ProviderCheck.generateJsonString() *)
CallGenerateJsonString ==
  /\ call = NoCall
  /\ \E res \in LastResults,
        colTimeGenerated \in {"None", COL_SERVER_UTC, COL_LOCAL_UTC} :
       LET check == [NewCheck(CheckHostConfig) EXCEPT
                       !.lastResult = CallResult(res),
                       !.colTimeGenerated = colTimeGenerated]
       IN call' = [method |-> "generateJsonString", check |-> check,
                   result |-> GenerateJsonString(H1, check)]
  /\ UNCHANGED << now, pc, deployment, content, files, classState, objs, hi, ci, ai,
                  sink, decision, attempts, failed, runStart, runOk, preparedSql,
                  startTime, loaded, sinkFaulty >>

----------------------------------------------------------------------------
(* helper/config.py: ConfigHandler over the customer KeyVault.               *)
(* A name is the sequence of its characters; a provider type is one symbol,  *)
(* none of the available types holding a "-".                                *)

MaxNameLen == 3

NameChars == {"d", "b", "-"}

InstanceNames == UNION { [1..n -> NameChars] : n \in 1..MaxNameLen }

(* json.dumps(instanceProperties) *)
JsonDumps(v) == << "json", v >>

(* json.loads(secretValue); ok is FALSE for a JSONDecodeError *)
JsonLoads(text) ==
  IF Len(text) = 2 /\ text[1] = "json"
  THEN [ok |-> TRUE, value |-> text[2]]
  ELSE [ok |-> FALSE, value |-> EmptyDict]

(* str.split(sep) *)
RECURSIVE Split(_, _)
Split(s, sep) ==
  LET i == IndexOf(s, sep)
  IN IF i = 0 THEN << s >>
     ELSE << SubSeq(s, 1, i - 1) >> \o Split(SubSeq(s, i + 1, Len(s)), sep)

(* "%s-%s" % (providerType, instanceName) *)
SecretName(providerType, instanceName) == << providerType, "-" >> \o instanceName

sectionGlobal == << "global" >>

(* ConfigHandler.saveInstanceToConfig over the secrets of the KeyVault; kv   *)
(* is whether the KeyVault answers the PUT with the stored value             *)
SaveInstanceToConfig(secrets, instance, kv) ==
  IF {"name", "type", "properties"} \ DOMAIN instance # {}
  THEN [ok |-> FALSE, secrets |-> secrets]
  ELSE IF instance.type \notin ProviderTypes
  THEN [ok |-> FALSE, secrets |-> secrets]
  ELSE IF ~ kv
  THEN [ok |-> FALSE, secrets |-> secrets]
  ELSE [ok |-> TRUE,
        secrets |-> Put(secrets, SecretName(instance.type, instance.name),
                        JsonDumps(instance.properties))]

(* ConfigHandler.loadConfig: the global parameters and the instances *)
LoadConfig(secrets) ==
  LET parsed(n) == JsonLoads(secrets[n])
      parts(n) == Split(n, "-")
      isInstance(n) ==
        /\ parsed(n).ok
        /\ n # sectionGlobal
        /\ Len(parts(n)) = 2
        /\ \E t \in ProviderTypes : parts(n)[1] = << t >>
  IN [globalParams |-> IF sectionGlobal \in DOMAIN secrets /\ parsed(sectionGlobal).ok
                       THEN parsed(sectionGlobal).value ELSE EmptyDict,
      instances |-> { [type |-> parts(n)[1][1],
                       name |-> parts(n)[2],
                       properties |-> parsed(n).value] :
                      n \in { m \in DOMAIN secrets : isInstance(m) } }]

(* what the KeyVault holds before the save *)
StoredSecrets ==
  { EmptyDict,
    [n \in {sectionGlobal} |-> JsonDumps([logAnalyticsWorkspaceId |-> "w1"])],
    [n \in {sectionGlobal} |-> << "{" >>] }

(* the instances handed to saveInstanceToConfig *)
InstancesToSave ==
  { [name |-> n, type |-> t, properties |-> p] :
      n \in InstanceNames,
      t \in ProviderTypes \cup {"Unknown"},
      p \in { H1.properties, M1.properties } }
  \cup { [name |-> << "d" >>, type |-> "SapHana"] }

(* saveInstanceToConfig(instance), then loadConfig() *)
CallSaveInstanceToConfig ==
  /\ call = NoCall
  /\ \E secrets \in StoredSecrets, instance \in InstancesToSave, kv \in BOOLEAN :
       LET saved == SaveInstanceToConfig(secrets, instance, kv)
       IN call' = [method |-> "saveInstanceToConfig", instance |-> instance,
                   accepted |-> saved.ok, secrets |-> saved.secrets,
                   loaded |-> LoadConfig(saved.secrets)]
  /\ UNCHANGED << now, pc, deployment, content, files, classState, objs, hi, ci, ai,
                  sink, decision, attempts, failed, runStart, runOk, preparedSql,
                  startTime, loaded, sinkFaulty >>

----------------------------------------------------------------------------
(* sapmon.py onboard over helper/azure.py AzureKeyVault and REST.sendRequest *)

ERROR_SETTING_KEYVAULT_SECRET == 20

(* what the KeyVault endpoint does with one request: answers 200 with a      *)
(* JSON body, answers 200 with another body, rejects the request with an     *)
(* error status, or cannot be reached                                        *)
RestOutcomes == {"ok", "okNotJson", "rejected", "unreachable"}

(* REST.sendRequest: the decoded JSON, the raw content, or None; every       *)
(* exception is caught and logged                                            *)
SendRequest(outcome) ==
  CASE outcome = "ok" -> [kind |-> "json", value |-> "stored"]
    [] outcome = "okNotJson" -> [kind |-> "bytes"]
    [] OTHER -> [kind |-> "None"]

(* AzureKeyVault._sendRequest: (success, value); '"value" in response' on    *)
(* raw content is a TypeError                                                *)
KvSendRequest(outcome) ==
  LET response == SendRequest(outcome)
  IN CASE response.kind = "json" -> [raised |-> FALSE, success |-> TRUE]
       [] response.kind = "bytes" -> [raised |-> TRUE, success |-> FALSE]
       [] OTHER -> [raised |-> FALSE, success |-> FALSE]

(* AzureKeyVault.setSecret: exits the process when _sendRequest raises,      *)
(* returns success otherwise                                                 *)
SetSecret(outcome) ==
  LET r == KvSendRequest(outcome)
  IN IF r.raised
     THEN [exit |-> ERROR_SETTING_KEYVAULT_SECRET, success |-> FALSE]
     ELSE [exit |-> NULL, success |-> r.success]

(* onboard: the two secrets are written, then the HANA instance is tried;    *)
(* the value setSecret returns is not looked at                              *)
Onboard(kvHana, kvLa, hanaOk) ==
  LET s1 == SetSecret(kvHana)
      s2 == SetSecret(kvLa)
  IN IF s1.exit # NULL
     THEN [exit |-> s1.exit, completed |-> FALSE, written |-> {}]
     ELSE IF s2.exit # NULL
     THEN [exit |-> s2.exit, completed |-> FALSE,
           written |-> IF s1.success THEN {"SapHana"} ELSE {}]
     ELSE LET written == (IF s1.success THEN {"SapHana"} ELSE {})
                         \cup (IF s2.success THEN {"AzureLogAnalytics"} ELSE {})
          IN IF ~ hanaOk
             THEN [exit |-> ERROR_HANA_CONNECTION, completed |-> FALSE,
                   written |-> written]
             ELSE [exit |-> 0, completed |-> TRUE, written |-> written]

(* sapmon.py onboard *)
CallOnboard ==
  /\ call = NoCall
  /\ \E kvHana \in RestOutcomes, kvLa \in RestOutcomes, hanaOk \in BOOLEAN :
       call' = [method |-> "onboard", kvHana |-> kvHana, kvLa |-> kvLa,
                hanaOk |-> hanaOk, result |-> Onboard(kvHana, kvLa, hanaOk)]
  /\ UNCHANGED << now, pc, deployment, content, files, classState, objs, hi, ci, ai,
                  sink, decision, attempts, failed, runStart, runOk, preparedSql,
                  startTime, loaded, sinkFaulty >>

----------------------------------------------------------------------------
(* provider/prometheus.py: PrometheusCheck.run over HttpConnection.fetch *)

PromNone == [none |-> TRUE, families |-> << >>]

PromText(families) == [none |-> FALSE, families |-> families]

(* what the exporter serves: metric families of one sample each *)
PromFamilies ==
  { << >>,
    << [name |-> "node_load1", value |-> 2] >>,
    << [name |-> "go_threads", value |-> 7], [name |-> "node_load1", value |-> 2] >> }

(* HttpConnection.fetch: resp.text, or None after any exception *)
Fetch(outcome, families) ==
  IF outcome = "ok" THEN PromText(families) ELSE PromNone

(* re.match of the prefix expressions on the metric names of the model *)
RegexpMatch(regexp, name) ==
  CASE regexp = "^(?:go|promhttp|process)_" -> name = "go_threads"
    [] regexp = "^node_" -> name = "node_load1"
    [] OTHER -> FALSE

(* convertResultIntoJson: filter_prometheus_metric *)
FilterPrometheusMetric(includePrefixes, excludePrefixes, name) ==
  IF includePrefixes # "None"
  THEN RegexpMatch(includePrefixes, name)
  ELSE IF excludePrefixes # "None"
  THEN ~ RegexpMatch(excludePrefixes, name)
  ELSE TRUE

(* convertResultIntoJson: prometheusSample2Dict at collector time t *)
PrometheusSample2Dict(name, value, instance, t) ==
  [name |-> name, value |-> value, timestamp_unix |-> t,
   TIME_GENERATED |-> JsonTime(t), instance |-> instance]

(* "1 if promData else 0": None and the empty text count as no data *)
PromDataTruthy(promData) == ~ promData.none /\ Len(promData.families) > 0

(* PrometheusCheck.convertResultIntoJson: the samples of the families that   *)
(* pass the filter, then the sample "up"                                     *)
ConvertResultIntoJson(promData, includePrefixes, excludePrefixes, instance, t) ==
  LET kept == SelectSeq(promData.families,
                        LAMBDA f : FilterPrometheusMetric(includePrefixes,
                                                          excludePrefixes, f.name))
  IN [i \in 1..Len(kept) |->
        PrometheusSample2Dict(kept[i].name, kept[i].value, instance, t)]
     \o << PrometheusSample2Dict("up", IF PromDataTruthy(promData) THEN 1 ELSE 0,
                                 instance, t) >>

(* PrometheusCheck.run(promUrl) *)
CallPrometheusRun ==
  /\ call = NoCall
  /\ \E outcome \in {"ok", "failed"}, families \in PromFamilies,
        includePrefixes \in {"None", "^node_"} :
       LET data == Fetch(outcome, families)
       IN call' = [method |-> "PrometheusCheck.run", data |-> data,
                   includePrefixes |-> includePrefixes,
                   result |-> ConvertResultIntoJson(data, includePrefixes,
                                                    "^(?:go|promhttp|process)_",
                                                    "node01:9100", now)]
  /\ UNCHANGED << now, pc, deployment, content, files, classState, objs, hi, ci, ai,
                  sink, decision, attempts, failed, runStart, runOk, preparedSql,
                  startTime, loaded, sinkFaulty >>

----------------------------------------------------------------------------
(* provider/base.py: initContent and the method lookup of run *)

(* the _action<type> methods the check class of a provider type defines *)
ImplementedActions(providerType) ==
  IF providerType = "SapHana"
  THEN {"ExecuteSql", "ParseHostConfig", "ProbeSqlConnection"}
  ELSE {"ExecuteSql"}

(* action types a content file may name *)
ActionTypes == {"ExecuteSql", "ParseHostConfig", "ProbeSqlConnection", "RunScript"}

(* run: getattr(self, METHODNAME_ACTION % action["type"]) *)
LookupAction(providerType, action) ==
  IF action.type \in ImplementedActions(providerType)
  THEN "method" ELSE "AttributeError"

(* a content file of one check with up to two actions *)
CataloguesToLoad ==
  { << CheckOptions("Custom", 1, TRUE, actions) >> :
      actions \in { << Action(t, EmptyDict) >> : t \in ActionTypes }
                  \cup { << Action("ExecuteSql", EmptyDict), Action(t, EmptyDict) >> :
                           t \in ActionTypes } }

(* ProviderInstance.__init__ on a content file, then run() of each check it  *)
(* has instantiated                                                          *)
CallInitContent ==
  /\ call = NoCall
  /\ \E inst \in {H1, M1}, catalogue \in CataloguesToLoad :
       LET checks == NewInstance(inst, catalogue, NoFile).checks
       IN call' = [method |-> "initContent", providerType |-> inst.type,
                   catalogue |-> catalogue, checks |-> checks,
                   lookups |-> [c \in 1..Len(checks) |->
                                  [a \in 1..Len(checks[c].opts.actions) |->
                                     LookupAction(inst.type, checks[c].opts.actions[a])]]]
  /\ UNCHANGED << now, pc, deployment, content, files, classState, objs, hi, ci, ai,
                  sink, decision, attempts, failed, runStart, runOk, preparedSql,
                  startTime, loaded, sinkFaulty >>

----------------------------------------------------------------------------
(* sapmon.py _Context: one list of checks and one state file for the         *)
(* process, written by monitor after each HANA instance                      *)

FILENAME_STATEFILE == "sapmon.state"

(* writeStateFile: sectionKey = "%s_%s" % (c.prefix, c.name) *)
SectionKey(check) == << "HANA", "_", check.opts.name >>

(* _Context.writeStateFile over the files of the state directory *)
WriteStateFile(stateDir, availableChecks) ==
  Put(stateDir, FILENAME_STATEFILE,
      [k \in { SectionKey(availableChecks[c]) : c \in 1..Len(availableChecks) } |->
         JsonEncodeDict(
           availableChecks[CHOOSE c \in 1..Len(availableChecks) :
                             SectionKey(availableChecks[c]) = k].state)])

(* monitor for one HANA instance at time t: every check of                   *)
(* ctx.availableChecks that is enabled and due is run, then the state file   *)
(* is written                                                                *)
MonitorInstance(ctx, t) ==
  LET checks == [c \in 1..Len(ctx.availableChecks) |->
                   LET chk == ctx.availableChecks[c]
                   IN IF IsEnabled(chk.state)
                         /\ IsDue(chk.state, chk.opts.frequencySecs, t)
                      THEN [chk EXCEPT !.state = Put(@, "lastRunLocal", t)]
                      ELSE chk]
  IN [availableChecks |-> checks,
      stateDir |-> WriteStateFile(ctx.stateDir, checks)]

(* monitor over two HANA instances, taken up at t1 and t2 *)
CallWriteStateFile ==
  /\ call = NoCall
  /\ \E t1 \in 0..MaxTime, t2 \in 0..MaxTime, frequencySecs \in 1..2 :
       /\ t1 <= t2
       /\ LET ctx0 == [availableChecks |->
                         << NewCheck(CheckOptions("HostConfig", frequencySecs,
                                                  TRUE, << >>)) >>,
                       stateDir |-> EmptyDict]
              ctx1 == MonitorInstance(ctx0, t1)
              ctx2 == MonitorInstance(ctx1, t2)
          IN call' = [method |-> "writeStateFile", t1 |-> t1, t2 |-> t2,
                      frequencySecs |-> frequencySecs,
                      after |-> << ctx1.stateDir, ctx2.stateDir >>]
  /\ UNCHANGED << now, pc, deployment, content, files, classState, objs, hi, ci, ai,
                  sink, decision, attempts, failed, runStart, runOk, preparedSql,
                  startTime, loaded, sinkFaulty >>

(* checks as _actionExecuteSql may find them: never run, or run before *)
ChecksBeforeExecuteSql ==
  { [NewCheck(CheckOptions("LoadHistory", 1, TRUE, << >>))
       EXCEPT !.state = state, !.lastResult = lastResult] :
    state \in SqlCheckStates,
    lastResult \in {NoResult, Result({"HOST", "VALUE", COL_TIMESERIES_UTC}, << >>)} }

(* saphanaProviderCheck._actionExecuteSql(sql) at collector time t *)
CallExecuteSql ==
  /\ call = NoCall
  /\ \E check \in ChecksBeforeExecuteSql,
        sql \in { << >>, << SelLoadHistory, TokFrom >> },
        conn \in [HanaHosts -> ConnOutcomes], exec \in {"ok", "raise"},
        t \in 0..MaxTime :
       LET params == [sql |-> sql]
           prepared == PrepareSql(sql, FALSE, 60, check.state)
       IN \E rows \in (IF prepared = << >> THEN { << >> } ELSE DbRowSets(prepared, t)) :
            call' = [method |-> "_actionExecuteSql", check |-> check, t |-> t,
                     connected |-> GetHanaConnection(<< "hdb01" >>, conn) # 0,
                     prepared |-> prepared, exec |-> exec,
                     result |-> HanaExecuteSql(check, EmptyDict, "hdb01", params,
                                               conn, exec, rows, t)]
  /\ UNCHANGED << now, pc, deployment, content, files, classState, objs, hi, ci, ai,
                  sink, decision, attempts, failed, runStart, runOk, preparedSql,
                  startTime, loaded, sinkFaulty >>

NextCalls ==
  \/ CallPrepareSql
  \/ CallGetHanaConnection
  \/ CallProbeSqlConnection
  \/ CallGenerateJsonString
  \/ CallSaveInstanceToConfig
  \/ CallOnboard
  \/ CallPrometheusRun
  \/ CallInitContent
  \/ CallWriteStateFile
  \/ CallExecuteSql

SpecCalls == Init /\ [][NextCalls]_vars

----------------------------------------------------------------------------
(* Properties of the monitor pass *)

(* C1: in a monitor pass the actions of a check are executed if and only if  *)
(* the check's isEnabled is true and lastRunLocal is null or                 *)
(* lastRunLocal + frequencySecs <= now; otherwise the check is skipped, none *)
(* of its actions runs and nothing is submitted to the sink for it.          *)
C1_RunIffEnabledAndDue ==
  [][ /\ AtCheck =>
           LET st == CurCheck.state
               toRun == /\ st["isEnabled"]
                        /\ \/ st["lastRunLocal"] = NULL
                           \/ st["lastRunLocal"] + CurCheck.opts.frequencySecs <= now
           IN /\ (pc' = "action") <=> toRun
              /\ ~ toRun => /\ pc' = "check" /\ ci' = ci + 1
                            /\ decision'[hi][ci] \in {"disabled", "notdue"}
                            /\ attempts' = attempts /\ sink' = sink /\ objs' = objs
      /\ \A i \in DOMAIN decision' : \A c \in DOMAIN decision'[i] :
           decision'[i][c] \in {"disabled", "notdue"} =>
             /\ \A a \in DOMAIN attempts'[i][c] : attempts'[i][c][a] = 0
             /\ \A k \in 1..Len(sink') : ~ (sink'[k].inst = i /\ sink'[k].check = c)
    ]_vars

(* a pass that has skipped a disabled check and a check that is not due,     *)
(* and has run a check whose frequency had elapsed since its last run        *)
C1_Witness ==
  /\ pc = "action"
  /\ loaded[hi].checks[ci].state["lastRunLocal"] # NULL
  /\ \E i \in DOMAIN decision : \E c \in DOMAIN decision[i] : decision[i][c] = "disabled"
  /\ \E i \in DOMAIN decision : \E c \in DOMAIN decision[i] : decision[i][c] = "notdue"

(* C2: re-running monitor at a time t at which every check of every          *)
(* instance has lastRunLocal + frequencySecs > t makes no ingest call.       *)
C2_QuietPassWritesNothing ==
  ( /\ pc # "idle"
    /\ now = startTime
    /\ \A i \in DOMAIN loaded : \A c \in DOMAIN loaded[i].checks :
         /\ loaded[i].checks[c].state["lastRunLocal"] # NULL
         /\ loaded[i].checks[c].state["lastRunLocal"]
              + loaded[i].checks[c].opts.frequencySecs > startTime )
  => sink = << >>

(* such a pass has gone through all instances *)
C2_Witness ==
  /\ pc = "done"
  /\ now = startTime
  /\ loaded # << >>
  /\ \A i \in DOMAIN loaded : \A c \in DOMAIN loaded[i].checks :
       /\ loaded[i].checks[c].state["lastRunLocal"] # NULL
       /\ loaded[i].checks[c].state["lastRunLocal"]
            + loaded[i].checks[c].opts.frequencySecs > startTime
  /\ \A i \in DOMAIN decision : \A c \in DOMAIN decision[i] : decision[i][c] = "notdue"

(* C3: an action that fails on every attempt and has retries = r is          *)
(* attempted exactly r + 1 times before the engine gives up on it.           *)
C3_FailedActionAttemptedRetriesPlusOne ==
  \A f \in failed :
    attempts[f[1]][f[2]][f[3]] = objs[f[1]].checks[f[2]].opts.actions[f[3]].retries + 1

(* C4: when an action of a check fails, none of the later actions of that    *)
(* check is executed in that run.                                            *)
C4_NoActionAfterFailure ==
  \A f \in failed :
    \A a \in DOMAIN attempts[f[1]][f[2]] : a > f[3] => attempts[f[1]][f[2]][a] = 0

(* C5: a failed action in one check does not stop the processing of its      *)
(* instance: when the process has ended, every later check of that instance  *)
(* has been taken up (run, or skipped as disabled or not due).               *)
C5_LaterChecksStillTakenUp ==
  pc \in {"done", "crashed"} =>
    \A f \in failed :
      \A c \in DOMAIN decision[f[1]] : c > f[2] => decision[f[1]][c] # "none"

(* C6: no operation performed for one provider instance changes the          *)
(* instance state (hostConfig included) of another provider instance.        *)
C6_NoStateSharedBetweenInstances ==
  [][ pc = "action" =>
        \A j \in InstIdx : j # hi => InstState(j)' = InstState(j) ]_vars

(* C7: for every check that is in the catalogue before and after a reload,  *)
(* the isEnabled value in the state file is the value the check has after    *)
(* the next instance construction and readState, also when the catalogue     *)
(* added or removed other checks; the operator's toggle is not replaced by   *)
(* the catalogue's default.                                                  *)
C7_IsEnabledSurvivesReload ==
  (pc = "connect" /\ hi = 1) =>
    \A i \in DOMAIN objs : \A c \in DOMAIN objs[i].checks :
      LET file == files[FullName(deployment[i])]
          name == objs[i].checks[c].opts.name
      IN ( /\ file.exists
           /\ name \in DOMAIN file.text.checks
           /\ "isEnabled" \in DOMAIN file.text.checks[name] )
         => objs[i].checks[c].state["isEnabled"] = file.text.checks[name]["isEnabled"]

(* C8: after a successful run of a check, its lastRunLocal is at least the   *)
(* time at which that run started.                                           *)
C8_LastRunLocalNotBeforeRunStart ==
  (pc = "action" /\ ai > Len(CurCheck.opts.actions) /\ runOk) =>
    /\ CurCheck.state["lastRunLocal"] # NULL
    /\ CurCheck.state["lastRunLocal"] >= runStart

(* a successful run during which the clock has moved on *)
C8_Witness ==
  /\ pc = "action" /\ ai > Len(CurCheck.opts.actions) /\ runOk
  /\ CurCheck.state["lastRunLocal"] > runStart

(* C9: after a run of a time-series check whose result has at least one      *)
(* row, lastRunServer is the _TIMESERIES_UTC value of the last result row.   *)
C9_LastRunServerIsLastRow ==
  \A i \in DOMAIN objs : \A c \in DOMAIN objs[i].checks :
    LET check == objs[i].checks[c] IN
      ( /\ \E a \in DOMAIN check.opts.actions :
             Get(check.opts.actions[a].parameters, "isTimeSeries", FALSE)
        /\ Len(check.lastResult.rows) >= 1 )
      => /\ "lastRunServer" \in DOMAIN check.state
         /\ check.state["lastRunServer"] = Last(check.lastResult.rows)[COL_TIMESERIES_UTC]

(* a time-series run whose first and last row differ in _TIMESERIES_UTC *)
C9_Witness ==
  \E i \in DOMAIN objs : \E c \in DOMAIN objs[i].checks :
    LET check == objs[i].checks[c] IN
      /\ \E a \in DOMAIN check.opts.actions :
           Get(check.opts.actions[a].parameters, "isTimeSeries", FALSE)
      /\ Len(check.lastResult.rows) >= 2
      /\ check.lastResult.rows[1][COL_TIMESERIES_UTC]
           # Last(check.lastResult.rows)[COL_TIMESERIES_UTC]
      /\ pc = "check"

(* C10: the statement prepared for a time-series query carries both          *)
(* rewrites: the _SERVER_UTC insertion in place of the first " FROM", and    *)
(* the substitution of {lastRunServerUtc}, by ADD_SECONDS(NOW(), i.VALUE*(-1)*)
(* - initialTimespanSecs) on a first run and by the quoted last server time  *)
(* on later runs.                                                            *)
C10_TimeSeriesStatementHasBothRewrites ==
  (preparedSql.stmt # << >> /\ Get(preparedSql.params, "isTimeSeries", FALSE)) =>
    /\ TokSqlTimestamp \in Range(preparedSql.stmt)
    /\ TokPlaceholder \notin Range(preparedSql.stmt)
    /\ IF preparedSql.lastRunServer = NULL
       THEN TokAddSeconds(preparedSql.params["initialTimespanSecs"])
              \in Range(preparedSql.stmt)
       ELSE TokQuotedTime(preparedSql.lastRunServer) \in Range(preparedSql.stmt)

----------------------------------------------------------------------------
(* Properties of single calls *)

(* C11: _prepareSql rewrites only the first occurrence of " FROM" in the     *)
(* literal query; every later occurrence of " FROM" is left unchanged.       *)
C11_OnlyFirstFromRewritten ==
  call.method = "_prepareSql" =>
    LET sql == call.sql
        out == call.result
        first == IF \E j \in 1..Len(sql) : sql[j] = TokFrom
                 THEN CHOOSE j \in 1..Len(sql) :
                        sql[j] = TokFrom /\ \A k \in 1..(j-1) : sql[k] # TokFrom
                 ELSE 0
    IN /\ Len(out) = Len(sql)
       /\ \A j \in 1..Len(sql) : (sql[j] = TokFrom /\ j # first) => out[j] = TokFrom
       /\ (~ call.isTimeSeries /\ first > 0) => out[first] = TokSqlTimestamp

(* a query with a sub-select: the first " FROM" rewritten, the second kept *)
C11_Witness ==
  /\ call.method = "_prepareSql"
  /\ ~ call.isTimeSeries
  /\ \E i, j \in 1..Len(call.sql) :
       /\ i < j /\ call.sql[i] = TokFrom /\ call.sql[j] = TokFrom
       /\ call.result[i] = TokSqlTimestamp /\ call.result[j] = TokFrom

(* C12: _getHanaConnection tries the hosts one at a time, in the stored      *)
(* order of state.hostConfig when it exists and otherwise only the           *)
(* configured hostname; it returns the connection of the first host that     *)
(* reports isconnected(), contacts no host after that one, and returns no    *)
(* connection when none connects, upon which executeSql fails.               *)
C12_FirstConnectedHostWins ==
  call.method = "_getHanaConnection" =>
    LET st == call.instState
        hosts == IF "hostConfig" \in DOMAIN st
                 THEN [i \in 1..Len(st["hostConfig"]) |-> st["hostConfig"][i].host]
                 ELSE << call.hostname >>
        r == call.result
        up(j) == call.conn[hosts[j]] = "connected"
    IN /\ Len(r.contacted) <= Len(hosts)
       /\ \A j \in 1..Len(r.contacted) : r.contacted[j] = hosts[j]
       /\ r.index \in 0..Len(hosts)
       /\ r.index > 0 => /\ up(r.index)
                         /\ \A j \in 1..(r.index - 1) : ~ up(j)
                         /\ Len(r.contacted) = r.index
                         /\ call.executeSql = "ok"
       /\ r.index = 0 => /\ \A j \in 1..Len(hosts) : ~ up(j)
                         /\ Len(r.contacted) = Len(hosts)
                         /\ call.executeSql = "raise"

(* two stored hosts that both accept connections: the first is taken and     *)
(* the second is not contacted                                               *)
C12_Witness ==
  /\ call.method = "_getHanaConnection"
  /\ "hostConfig" \in DOMAIN call.instState
  /\ Len(call.instState["hostConfig"]) = 2
  /\ \A h \in HanaHosts : call.conn[h] = "connected"
  /\ call.result.index = 1
  /\ call.result.contacted = << call.instState["hostConfig"][1].host >>

(* C13: probeSqlConnection records exactly one result (localUtc, host,       *)
(* success, latencyMs) per host of the stored host config, in sorted host    *)
(* order; success is true iff a connection was established or the connection *)
(* error contains 89008 or 'socket closed', and latencyMs is null iff        *)
(* success is false.                                                         *)
C13_OneProbeResultPerHost ==
  (call.method = "_actionProbeSqlConnection" /\ "hostConfig" \in DOMAIN call.instState) =>
    LET hc == call.instState["hostConfig"]
        hosts == { hc[i].host : i \in 1..Len(hc) }
        res == call.result.check.lastResult
        rows == res.rows
        answers(h) == { call.probe[<< h, port >>] : port \in ProbePorts }
    IN /\ hosts # {} => call.result.status = "ok"
       /\ ~ res.none
       /\ res.cols = {COL_LOCAL_UTC, "HOST", "SUCCESS", "LATENCY_MS"}
       /\ Len(rows) = Cardinality(hosts)
       /\ { rows[i].HOST : i \in 1..Len(rows) } = hosts
       /\ \A i \in 1..Len(rows), j \in 1..Len(rows) :
            i < j => IndexOf(HostOrder, rows[i].HOST) < IndexOf(HostOrder, rows[j].HOST)
       /\ \A i \in 1..Len(rows) :
            /\ rows[i][COL_LOCAL_UTC] = call.t
            /\ rows[i].SUCCESS =
                 (answers(rows[i].HOST) \cap {"connected", "89008", "socket closed"} # {})
            /\ (rows[i].LATENCY_MS = NULL) = (~ rows[i].SUCCESS)

(* hosts stored out of order, the first answering 89008 on its nameserver    *)
(* port only and the second not answering at all                             *)
C13_Witness ==
  /\ call.method = "_actionProbeSqlConnection"
  /\ "hostConfig" \in DOMAIN call.instState
  /\ Len(call.instState["hostConfig"]) = 2
  /\ call.instState["hostConfig"][1].host = "hdb02"
  /\ call.probe[<< "hdb01", "sql" >>] = "notconnected"
  /\ call.probe[<< "hdb01", "nameserver" >>] = "89008"
  /\ Len(call.result.check.lastResult.rows) = 2
  /\ call.result.check.lastResult.rows[1].HOST = "hdb01"
  /\ call.result.check.lastResult.rows[1].SUCCESS
  /\ call.result.check.lastResult.rows[1].LATENCY_MS # NULL
  /\ ~ call.result.check.lastResult.rows[2].SUCCESS
  /\ call.result.check.lastResult.rows[2].LATENCY_MS = NULL

(* C14 as stated: in probeSqlConnection, a host whose connection attempt to  *)
(* the SQL (index-server) port fails with 'timeout expired' is recorded with *)
(* success = false and latency null.                                         *)
C14_SqlPortTimeoutIsDown ==
  (call.method = "_actionProbeSqlConnection" /\ "hostConfig" \in DOMAIN call.instState) =>
    LET rows == call.result.check.lastResult.rows
    IN \A i \in 1..Len(rows) :
         call.probe[<< rows[i].HOST, "sql" >>] = "timeout expired" =>
           (~ rows[i].SUCCESS /\ rows[i].LATENCY_MS = NULL)

(* C14 amended: a host whose attempt to the SQL port fails with 'timeout     *)
(* expired' is recorded with success = false and latency null when the       *)
(* attempt to its nameserver port, made next, neither connects nor fails     *)
(* with 89008 or 'socket closed'.                                            *)
C14_TimeoutOnSqlAndNoNameserverIsDown ==
  (call.method = "_actionProbeSqlConnection" /\ "hostConfig" \in DOMAIN call.instState) =>
    LET rows == call.result.check.lastResult.rows
    IN \A i \in 1..Len(rows) :
         ( /\ call.probe[<< rows[i].HOST, "sql" >>] = "timeout expired"
           /\ call.probe[<< rows[i].HOST, "nameserver" >>]
                \notin {"connected", "89008", "socket closed"} ) =>
           (~ rows[i].SUCCESS /\ rows[i].LATENCY_MS = NULL)

(* a host timing out on both ports is recorded as down *)
C14_Witness ==
  /\ call.method = "_actionProbeSqlConnection"
  /\ "hostConfig" \in DOMAIN call.instState
  /\ \E i \in 1..Len(call.result.check.lastResult.rows) :
       LET r == call.result.check.lastResult.rows[i]
       IN /\ call.probe[<< r.HOST, "sql" >>] = "timeout expired"
          /\ call.probe[<< r.HOST, "nameserver" >>] = "timeout expired"
          /\ ~ r.SUCCESS
          /\ r.LATENCY_MS = NULL

(* C15: a missing or unparseable state file does not abort the construction  *)
(* of the instance: its instance state is empty and every check keeps the    *)
(* state of its construction (lastRunLocal null), so every enabled check is  *)
(* due when the pass takes it up.                                            *)
C15_NoStateFileMeansInitialState ==
  /\ (pc = "connect" /\ hi = 1) =>
       \A i \in InstIdx :
         LET file == files[FullName(deployment[i])]
             catalogue == content[deployment[i].type]
         IN (~ file.exists \/ ~ file.parses) =>
              /\ InstState(i) = EmptyDict
              /\ Len(objs[i].checks) = Len(catalogue)
              /\ \A c \in 1..Len(catalogue) :
                   objs[i].checks[c].state =
                     [isEnabled |-> catalogue[c].enabled, lastRunLocal |-> NULL]
  /\ (pc \notin {"idle", "connect"} /\ hi \in InstIdx /\ loaded[hi].shared) =>
       /\ \A c \in 1..Len(objs[hi].checks) : decision[hi][c] # "notdue"
       /\ (AtCheck /\ IsEnabled(CurCheck.state)) =>
            /\ "lastRunLocal" \in DOMAIN CurCheck.state
            /\ IsDue(CurCheck.state, CurCheck.opts.frequencySecs, now)

(* a check is run by a process that found the state file damaged *)
C15_Witness ==
  /\ pc = "action"
  /\ files[FullName(deployment[hi])] = DamagedFile
  /\ loaded[hi].shared
  /\ decision[hi][ci] = "run"
  /\ now > 0

(* C16: writeState followed by readState with the same catalogue restores    *)
(* every check's lastRunLocal and lastRunServer as the datetimes they were,  *)
(* so that isDue answers the same, and restores the instance state           *)
(* (hostConfig) unchanged.                                                   *)
C16_WriteThenReadRestoresState ==
  [][ (pc = "check" /\ ci > Len(objs[hi].checks)) =>
        LET file == files'[FullName(deployment[hi])]
            inst == NewInstance(deployment[hi], content[deployment[hi].type], file)
        IN /\ file.exists /\ file.parses
           /\ inst.state = InstState(hi)
           /\ Len(inst.checks) = Len(objs[hi].checks)
           /\ \A c \in 1..Len(objs[hi].checks) :
                LET old == objs[hi].checks[c].state
                    new == inst.checks[c].state
                IN /\ DOMAIN new = DOMAIN old
                   /\ \A k \in DOMAIN old \cap DateKeys : new[k] = old[k]
                   /\ new["isEnabled"] = old["isEnabled"]
                   /\ \A t \in 0..(MaxTime + 2) :
                        IsDue(new, objs[hi].checks[c].opts.frequencySecs, t)
                          = IsDue(old, objs[hi].checks[c].opts.frequencySecs, t)
    ]_vars

(* a state file written with a host config, a lastRunLocal and a             *)
(* lastRunServer in it, from which the same state is read back               *)
C16_Witness ==
  \E i \in DOMAIN objs :
    LET file == files[FullName(deployment[i])]
        inst == NewInstance(deployment[i], content[deployment[i].type], file)
    IN /\ pc \in {"connect", "done"}
       /\ file.exists /\ file.parses
       /\ "hostConfig" \in DOMAIN file.text.global
       /\ Len(file.text.global["hostConfig"]) > 0
       /\ inst.state = InstState(i)
       /\ \E c \in 1..Len(objs[i].checks) :
            /\ "lastRunServer" \in DOMAIN objs[i].checks[c].state
            /\ objs[i].checks[c].state["lastRunServer"] > 0
            /\ objs[i].checks[c].state["lastRunLocal"] > 0
            /\ inst.checks[c].state = objs[i].checks[c].state

(* C17: in every emitted record a result column whose name starts with '_'   *)
(* or equals 'DUMMY' is present iff it is the column mapped to               *)
(* TimeGenerated; every other result column is present with the value of     *)
(* the row.                                                                  *)
C17_InternalColumnsElided ==
  (call.method = "generateJsonString" /\ ~ call.check.lastResult.none) =>
    LET res == call.check.lastResult
        out == call.result
    IN \A i \in 1..Len(out) : \A c \in res.cols :
         IF StartsWithUnderscore(c) \/ c = "DUMMY"
         THEN /\ (c \in DOMAIN out[i]) = (c = call.check.colTimeGenerated)
              /\ c \in DOMAIN out[i] => out[i][c] = JsonTime(res.rows[i][c])
         ELSE /\ c \in DOMAIN out[i]
              /\ out[i][c] = res.rows[i][c]

(* a record that keeps the TimeGenerated column and a data column and        *)
(* leaves out DUMMY and the other internal columns                           *)
C17_Witness ==
  /\ call.method = "generateJsonString"
  /\ call.check.colTimeGenerated = COL_SERVER_UTC
  /\ call.check.lastResult.cols = ResultColumns
  /\ Len(call.result) = 2
  /\ COL_SERVER_UTC \in DOMAIN call.result[1]
  /\ "HOST" \in DOMAIN call.result[1]
  /\ call.result[1]["SAPMON_VERSION"] = "db-side"
  /\ DOMAIN call.result[1] \cap {"DUMMY", "_ROWNUM", COL_LOCAL_UTC} = {}

(* C18: generateJsonString emits exactly one record per row of the result,   *)
(* in the order of the rows; with no result or zero rows it emits a          *)
(* well-formed empty JSON array.                                             *)
C18_OneRecordPerRowInOrder ==
  call.method = "generateJsonString" =>
    LET res == call.check.lastResult
        out == call.result
    IN IF res.none \/ Len(res.rows) = 0
       THEN out = << >>
       ELSE /\ Len(out) = Len(res.rows)
            /\ \A i \in 1..Len(out) :
                 /\ out[i]["PROVIDER_INSTANCE"] = H1.name
                 /\ "HOST" \in res.cols => out[i]["HOST"] = res.rows[i]["HOST"]

(* two rows emitted in the order of the result, the second row first in the  *)
(* database's own order                                                     *)
C18_Witness ==
  /\ call.method = "generateJsonString"
  /\ "HOST" \in call.check.lastResult.cols
  /\ Len(call.result) = 2
  /\ call.result[1]["HOST"] = HostOrder[2]
  /\ call.result[2]["HOST"] = HostOrder[1]

(* C19: an instance {name, type, properties} saved with saveInstanceToConfig *)
(* under '<type>-<name>' is returned by the next loadConfig with the same    *)
(* type, name and properties, for every instance name that the save accepts. *)
C19_SavedInstanceIsLoaded ==
  (call.method = "saveInstanceToConfig" /\ call.accepted) =>
    [type |-> call.instance.type,
     name |-> call.instance.name,
     properties |-> call.instance.properties] \in call.loaded.instances

(* C20: a monitor run that has the sink credentials but zero provider        *)
(* instances ends with exit code 60 and runs no check.                       *)
C20_NoInstancesExits60 ==
  (Len(deployment) = 0 /\ pc \in Ended \ {"idle"}) =>
    /\ ExitCode = ERROR_LOADING_CONFIG
    /\ sink = << >>
    /\ \A i \in DOMAIN decision : \A c \in DOMAIN decision[i] : decision[i][c] # "run"

(* C21: onboard exits with code 20 whenever writing a secret to the secret   *)
(* store fails (the store rejects the request or cannot be reached); it      *)
(* never reaches 'onboarding successfully completed' after a failed write.   *)
C21_FailedSecretWriteExits20 ==
  ( /\ call.method = "onboard"
    /\ \/ call.kvHana \in {"rejected", "unreachable"}
       \/ call.kvLa \in {"rejected", "unreachable"} )
  => /\ call.result.exit = ERROR_SETTING_KEYVAULT_SECRET
     /\ ~ call.result.completed

(* C22: when the Prometheus fetch fails (fetch returns null), the check      *)
(* still produces record JSON: exactly one 'up' sample with value 0 plus one *)
(* 'sapmon' meta-sample, and no error escapes run.                           *)
C22_FailedFetchGivesUpAndSapmonSample ==
  (call.method = "PrometheusCheck.run" /\ call.data.none) =>
    LET out == call.result
    IN /\ Len(out) = 2
       /\ \E i \in 1..Len(out) : out[i].name = "up" /\ out[i].value = 0
       /\ \E i \in 1..Len(out) : out[i].name = "sapmon"

(* C23: a failed sink ingest for one check is only logged: the monitor pass  *)
(* continues with the next check of the instance and still writes the        *)
(* instance's state at the end of the pass.                                  *)
C23_FailedIngestIsOnlyLogged ==
  /\ [][ (Len(sink') = Len(sink) + 1 /\ Last(sink').response = "None") =>
           /\ pc' = "check" /\ hi' = hi /\ ci' = ci + 1
           /\ objs' = objs /\ files' = files
       ]_vars
  /\ [](pc \in {"connect", "check", "action", "done"} =>
          \A i \in InstIdx :
            (i < hi \/ pc = "done") =>
              /\ files[FullName(deployment[i])].exists
              /\ files[FullName(deployment[i])].text.checks
                   = WriteStateText(InstState(i), objs[i].checks).checks)

(* a pass in which the ingest of one check failed, the next check of the     *)
(* instance ran all the same and the state of that instance was written      *)
C23_Witness ==
  /\ pc = "done"
  /\ \E k \in 1..(Len(sink) - 1) :
       /\ sink[k].response = "None"
       /\ sink[k + 1].inst = sink[k].inst
       /\ sink[k + 1].check = sink[k].check + 1
       /\ LET f == files[FullName(deployment[sink[k].inst])]
              n == objs[sink[k].inst].checks[sink[k].check].opts.name
          IN f.exists /\ f.text.checks[n]["lastRunLocal"] # JsonNull

(* C24: within one instance, checks are executed in content-file order, and  *)
(* within one check each action starts only after the previous action of     *)
(* the declared list has finished (never two actions of a check at once);    *)
(* the order of sink submissions equals the order of check execution.        *)
C24_ChecksAndActionsInOrder ==
  [][ pc \notin Ended =>
        /\ \A i \in InstIdx :
             /\ Len(objs[i].checks) = Len(content[deployment[i].type])
             /\ \A c \in 1..Len(objs[i].checks) :
                  objs[i].checks[c].opts = content[deployment[i].type][c]
        /\ \A i \in InstIdx : \A c \in DOMAIN decision[i] :
             decision'[i][c] # decision[i][c] =>
               /\ i = hi /\ c = ci
               /\ \A d \in DOMAIN decision[i] :
                    IF d < c THEN decision[i][d] # "none" ELSE decision[i][d] = "none"
               /\ \A j \in InstIdx : j > i =>
                    \A d \in DOMAIN decision[j] : decision[j][d] = "none"
        /\ \A i \in InstIdx : \A c \in DOMAIN attempts[i] : \A a \in DOMAIN attempts[i][c] :
             attempts'[i][c][a] # attempts[i][c][a] =>
               /\ i = hi /\ c = ci /\ a = ai
               /\ decision[i][c] = "run"
               /\ attempts'[i][c][a] = attempts[i][c][a] + 1
               /\ \A b \in DOMAIN attempts[i][c] :
                    IF b < a THEN attempts[i][c][b] >= 1 ELSE attempts[i][c][b] = 0
        /\ Len(sink') # Len(sink) =>
             /\ sink' = Append(sink, Last(sink'))
             /\ Last(sink').inst = hi /\ Last(sink').check = ci
             /\ decision[hi][ci] = "run"
             /\ \A a \in DOMAIN attempts[hi][ci] : attempts[hi][ci][a] >= 1
             /\ \A k \in 1..Len(sink) :
                  \/ sink[k].inst < hi
                  \/ sink[k].inst = hi /\ sink[k].check < ci
    ]_vars

(* a complete pass over two instances with three submissions, one of them    *)
(* of a check with two actions                                               *)
C24_Witness ==
  /\ pc = "done"
  /\ Len(sink) >= 3
  /\ sink[1].inst = 1 /\ sink[Len(sink)].inst = 2
  /\ \E k \in 1..Len(sink) :
       /\ Len(attempts[sink[k].inst][sink[k].check]) = 2
       /\ \A a \in 1..2 : attempts[sink[k].inst][sink[k].check][a] = 1

(* C25: every monitor invocation terminates: each check of each instance is  *)
(* run at most once per invocation, each action is attempted a bounded       *)
(* number of times, and the process finishes only after every loaded         *)
(* instance has been processed.                                              *)
C25_FinishesOnlyAfterEveryInstance ==
  /\ \A i \in DOMAIN attempts : \A c \in DOMAIN attempts[i] : \A a \in DOMAIN attempts[i][c] :
       attempts[i][c][a] <= objs[i].checks[c].opts.actions[a].retries + 1
  /\ \A k \in 1..Len(sink), l \in 1..Len(sink) :
       (sink[k].inst = sink[l].inst /\ sink[k].check = sink[l].check) => k = l
  /\ pc \in Ended \ {"idle"} =>
       \A i \in InstIdx :
         /\ \A c \in DOMAIN decision[i] : decision[i][c] # "none"
         /\ files[FullName(deployment[i])].exists

(* C26: a check whose action list names a type that the check class of its   *)
(* provider type does not implement is rejected when the content catalogue   *)
(* is loaded (it is not added to the instance's checks); an unknown action   *)
(* type is never first discovered while the check runs.                      *)
C26_UnknownActionRejectedAtLoad ==
  call.method = "initContent" =>
    \A c \in 1..Len(call.checks) :
      \A a \in 1..Len(call.checks[c].opts.actions) :
        /\ call.checks[c].opts.actions[a].type \in ImplementedActions(call.providerType)
        /\ call.lookups[c][a] = "method"

(* C27: writing the state of one provider instance changes only that         *)
(* instance's persisted state: the persisted instance state and check        *)
(* states of every other instance are unchanged, because distinct instances  *)
(* never write to the same state file.                                       *)
C27_WriteLeavesOtherInstancesAlone ==
  /\ [](call.method = "writeStateFile" =>
          \A f \in DOMAIN call.after[1] :
            f \in DOMAIN call.after[2] /\ call.after[2][f] = call.after[1][f])
  /\ [][ (pc = "check" /\ ci > Len(objs[hi].checks)) =>
           \A f \in FullNames : f # FullName(deployment[hi]) => files'[f] = files[f]
       ]_vars

(* C28: if the HANA executeSql action fails before its query has returned    *)
(* rows (no host connects, the statement cannot be prepared, or execution    *)
(* raises), the check's state and lastResult are left unchanged, so a check  *)
(* that was due is still due at every later time.                            *)
C28_FailedExecuteSqlLeavesCheckAlone ==
  (call.method = "_actionExecuteSql"
   /\ (~ call.connected \/ call.prepared = << >> \/ call.exec = "raise")) =>
    /\ call.result.status = "raise"
    /\ call.result.check.state = call.check.state
    /\ call.result.check.lastResult = call.check.lastResult
    /\ \A t2 \in call.t..MaxTime :
         IsDue(call.check.state, call.check.opts.frequencySecs, call.t) =>
           IsDue(call.result.check.state, call.check.opts.frequencySecs, t2)

(* reached: a check that ran before and is due fails on cursor.execute *)
C28_Witness ==
  /\ call.method = "_actionExecuteSql"
  /\ call.connected /\ call.prepared # << >> /\ call.exec = "raise"
  /\ call.check.state["lastRunLocal"] # NULL
  /\ ~ call.check.lastResult.none
  /\ IsDue(call.check.state, call.check.opts.frequencySecs, call.t)
  /\ call.result.status = "raise"

(* C29: in monitor, for every executed check the sink ingest call for its    *)
(* records happens before the state write that persists the check's new      *)
(* lastRunLocal: whenever a state file is written, every check of that       *)
(* instance that was executed in this pass already has its ingest call.      *)
C29_IngestBeforeStateWrite ==
  [][ files' # files =>
        \A c \in DOMAIN decision[hi] :
          decision[hi][c] = "run" =>
            /\ \E k \in 1..Len(sink) : sink[k].inst = hi /\ sink[k].check = c
            /\ sink' = sink
    ]_vars

(* reached: a state file holding a lastRunLocal of this pass, the check's    *)
(* records being with the sink client                                        *)
C29_Witness ==
  /\ pc \in {"connect", "done"}
  /\ \E i \in DOMAIN decision : \E c \in DOMAIN decision[i] :
       /\ decision[i][c] = "run"
       /\ \E k \in 1..Len(sink) : sink[k].inst = i /\ sink[k].check = c
       /\ LET file == files[FullName(deployment[i])]
              name == objs[i].checks[c].opts.name
          IN /\ file.exists /\ file.parses
             /\ name \in DOMAIN file.text.checks
             /\ file.text.checks[name]["lastRunLocal"] = JsonTime(startTime)

(* C30: in monitor, when the connection to one HANA instance cannot be       *)
(* established the process exits with code 30 at that point: no check of     *)
(* that instance and no check of any instance later in the list runs in      *)
(* that invocation, and no state is written for them.                        *)
C30_FailedConnectExits30 ==
  /\ [](pc = "exit30" =>
          /\ ExitCode = ERROR_HANA_CONNECTION
          /\ \A i \in hi..Len(deployment) :
               /\ \A c \in DOMAIN decision[i] : decision[i][c] = "none"
               /\ \A c \in DOMAIN attempts[i] : \A a \in DOMAIN attempts[i][c] :
                    attempts[i][c][a] = 0
               /\ \A k \in 1..Len(sink) : sink[k].inst # i)
  /\ [][ /\ \A i \in 1..Len(deployment) :
             (i > hi \/ (i = hi /\ pc \in {"connect", "exit30"})) =>
               files'[FullName(deployment[i])] = files[FullName(deployment[i])]
         /\ pc = "exit30" =>
              pc' = "exit30" \/ (hi' = 1 /\ sink' = << >> /\ startTime' = now)
       ]_vars

(* reached: the first instance has run a check and written its state, the    *)
(* connection to the second fails                                            *)
C30_Witness ==
  /\ pc = "exit30" /\ hi = 2
  /\ \E c \in DOMAIN decision[1] : decision[1][c] = "run"
  /\ sink # << >>
  /\ files[FullName(deployment[1])].exists
  /\ \A c \in DOMAIN decision[2] : decision[2][c] = "none"
====
